---- MODULE Spec2Model ----
(***************************************************************************)
(* Model of the speech-session transcription coordinator of                *)
(* src-tauri/src/speech/mod.rs: the single active-transcription slot, the   *)
(* transcribe_audio call and its blocking worker, cancel_transcription,     *)
(* and the session store (in-memory list, sessions.json, artifact          *)
(* directories) with delete_session, update_session and                     *)
(* import_sessions_data.                                                    *)
(*                                                                         *)
(* Every section of the code that runs under state.lock() contains no      *)
(* .await, so each is one atomic action.  Filesystem calls made outside    *)
(* the lock are one action each.  A filesystem call is given a failing      *)
(* outcome wherever the code branches on its result; the removals whose     *)
(* result the code discards (let _ = fs::remove_dir_all) are taken to       *)
(* remove the directory.                                                    *)
(***************************************************************************)
EXTENDS Integers, Sequences, FiniteSets, TLC

\* ------------------------------------------------------------------ bounds
\* number of transcribe_audio calls issued in a run
MaxCalls == 2
\* a created_at later than the clock reaches
MaxTime == 9
\* longest batch handed to import_sessions_data
MaxBatch == 2
\* number of delete_session, update_session and import_sessions_data calls
\* that fail with an Io or Audio error in a run
MaxFailed == 1

Calls == 1..MaxCalls
\* a session id that only backups bring in
ForeignIds == {MaxCalls + 1}
\* a session id that a backup brings in and that reads as a path climbing
\* out of its directory: "../../x"
ClimbingIds == {MaxCalls + 2}
Ids == Calls \cup ForeignIds \cup ClimbingIds
\* the created_at values of backups: before every call, and after
Times == {0, MaxTime}

\* ------------------------------------------------------------ state
VARIABLES
  sessions,   \* SpeechState.sessions: the in-memory list
  slot,       \* SpeechState.active_transcription: 0 is None, c is the entry call c registered
  flag,       \* flag[c]: the cancel_flag (AtomicBool) call c created
  released,   \* released[c]: ActiveTranscriptionHandle.released of call c's handle
  dropTasks,  \* calls whose handle was dropped unreleased: the spawned release not yet run
  pc,         \* pc[c]: where call c of transcribe_audio stands
  result,     \* result[c]: the error a call carries to its return, then what it returned
  ts,         \* ts[c]: the timestamp call c read (Local::now)
  worker,     \* worker[c]: where the spawn_blocking closure of call c stands
  wres,       \* wres[c]: what transcribe_blocking returned
  clock,      \* the wall clock
  index,      \* content of sessions.json
  dirs,       \* dirs[id]: files of sessions/<id>/, or NoDir
  ret,        \* what the latest call to touch the list returned, or cancel_transcription
  failed,     \* how many delete, update and import calls have returned an Io or Audio error
  given,      \* the batch of backups a run of ImportSpec imports; empty in the other runs
  modelFile,  \* the file at model_path: "absent", "partial" (created, not all written) or "complete"
  bundled,    \* whether one of the candidate bundled-resource files exists
  epc,        \* epc[e]: where call e of ensure_model stands
  events,     \* events[e]: the status and progress events call e has emitted, in order
  downloaded, \* downloaded[e]: the local counter of download_model in call e
  eret,       \* eret[e]: what call e of ensure_model returned
  dspIn,      \* the argument of a run of the audio decoder or of the resampler
  dspOut      \* what the decoder or the resampler returned, and what it read

vars == <<sessions, slot, flag, released, dropTasks, pc, result, ts, worker, wres,
          clock, index, dirs, ret, failed, given,
          modelFile, bundled, epc, events, downloaded, eret, dspIn, dspOut>>
dspVars == <<dspIn, dspOut>>
modelVars == <<modelFile, bundled, epc, events, downloaded, eret>>
jobVars == <<slot, flag, released, dropTasks, pc, result, ts, worker, wres, clock>>
storeVars == <<sessions, index, dirs>>

\* dirs[id] when sessions/<id>/ does not exist; no file has the empty name
NoDir == {<<>>}
\* Option::None for a text; no text holds this character
NoText == <<"None">>
NoRes == [ok |-> FALSE, err |-> "none", transcript |-> <<>>, segments |-> <<>>]
\* file names; each is a text, written here as one token
RECORDING == <<"recording.wav">>
TRANSCRIPT == <<"transcript.txt">>
SEGMENTS == <<"segments.json">>

\* ------------------------------------------------------------ texts
\* A string is a sequence of characters; " " is the only whitespace used.
RECURSIVE TrimStart(_)
TrimStart(s) == IF s # <<>> /\ Head(s) = " " THEN TrimStart(Tail(s)) ELSE s

RECURSIVE TrimEnd(_)
TrimEnd(s) ==
  IF s # <<>> /\ s[Len(s)] = " " THEN TrimEnd(SubSeq(s, 1, Len(s) - 1)) ELSE s

\* str::trim
Trim(s) == TrimEnd(TrimStart(s))

\* the default title "<language>转写 <HH:MM:SS>": some non-blank text
DefaultTitle == <<"d">>

\* impl TryFrom<&str> for SpeechLanguage, after to_lowercase
TryFromLanguage(tag) ==
  CASE tag \in {"en", "EN", "english", "English"} -> "English"
    [] tag \in {"zh", "ZH", "zh-cn", "zh-CN", "chinese", "zh-hans"} -> "Chinese"
    [] OTHER -> "UnsupportedLanguage"

\* The standard base64 alphabet: the character of each six-bit value, from 0.
Alphabet ==
  <<
    "A", "B", "C", "D", "E", "F", "G", "H", "I", "J", "K", "L", "M", "N", "O", "P",
    "Q", "R", "S", "T", "U", "V", "W", "X", "Y", "Z", "a", "b", "c", "d", "e", "f",
    "g", "h", "i", "j", "k", "l", "m", "n", "o", "p", "q", "r", "s", "t", "u", "v",
    "w", "x", "y", "z", "0", "1", "2", "3", "4", "5", "6", "7", "8", "9", "+", "/"
  >>

\* the six-bit value of each character of the alphabet
SextetOf == [ch \in {Alphabet[i] : i \in 1..64} |-> (CHOOSE i \in 1..64 : Alphabet[i] = ch) - 1]

\* the six-bit value of a character, -1 for a character outside the alphabet
Sextet(ch) == IF ch \in DOMAIN SextetOf THEN SextetOf[ch] ELSE -1

\* A faulty variant of the encoding of a group: the padding is left out.
EncodeGroupUnpadded(b) ==
  LET v == b[1] * 65536 + (IF Len(b) > 1 THEN b[2] * 256 ELSE 0) + (IF Len(b) > 2 THEN b[3] ELSE 0)
      all == <<Alphabet[(v \div 262144) + 1], Alphabet[((v \div 4096) % 64) + 1],
               Alphabet[((v \div 64) % 64) + 1], Alphabet[(v % 64) + 1]>>
  IN  SubSeq(all, 1, Len(b) + 1)

\* BASE64_STANDARD.encode of one to three bytes: four characters, padded
EncodeGroup(b) ==
  LET n == Len(b)
      v == b[1] * 65536 + (IF n > 1 THEN b[2] * 256 ELSE 0) + (IF n > 2 THEN b[3] ELSE 0)
      c1 == Alphabet[(v \div 262144) + 1]
      c2 == Alphabet[((v \div 4096) % 64) + 1]
      c3 == Alphabet[((v \div 64) % 64) + 1]
      c4 == Alphabet[(v % 64) + 1]
  IN  <<c1, c2, IF n > 1 THEN c3 ELSE "=", IF n > 2 THEN c4 ELSE "=">>

RECURSIVE Base64Encode(_)
\* BASE64_STANDARD.encode
Base64Encode(bytes) ==
  IF bytes = <<>> THEN <<>>
  ELSE IF Len(bytes) <= 3 THEN EncodeGroup(bytes)
  ELSE EncodeGroup(SubSeq(bytes, 1, 3)) \o Base64Encode(SubSeq(bytes, 4, Len(bytes)))

DecodeErr == [ok |-> FALSE, bytes |-> <<>>]

\* BASE64_STANDARD.decode of four characters; padding is accepted in the last
\* group only, and the bits it leaves unused must be zero
DecodeGroup(g, last) ==
  LET pad == IF g[4] # "=" THEN 0 ELSE IF g[3] # "=" THEN 1 ELSE 2
      s1 == Sextet(g[1])
      s2 == Sextet(g[2])
      s3 == IF pad = 2 THEN 0 ELSE Sextet(g[3])
      s4 == IF pad >= 1 THEN 0 ELSE Sextet(g[4])
      v == s1 * 262144 + s2 * 4096 + s3 * 64 + s4
      all == <<v \div 65536, (v \div 256) % 256, v % 256>>
  IN  IF (pad > 0 /\ ~last) \/ s1 < 0 \/ s2 < 0 \/ s3 < 0 \/ s4 < 0 THEN DecodeErr
      ELSE IF pad = 1 /\ s3 % 4 # 0 THEN DecodeErr
      ELSE IF pad = 2 /\ s2 % 16 # 0 THEN DecodeErr
      ELSE [ok |-> TRUE, bytes |-> SubSeq(all, 1, 3 - pad)]

RECURSIVE Base64Decode(_)
\* BASE64_STANDARD.decode
Base64Decode(text) ==
  IF text = <<>> THEN [ok |-> TRUE, bytes |-> <<>>]
  ELSE IF Len(text) < 4 THEN DecodeErr
  ELSE LET head == DecodeGroup(SubSeq(text, 1, 4), Len(text) = 4)
           rest == Base64Decode(SubSeq(text, 5, Len(text)))
       IN  IF head.ok /\ rest.ok
           THEN [ok |-> TRUE, bytes |-> head.bytes \o rest.bytes]
           ELSE DecodeErr

RECURSIVE AfterComma(_)
\* split_once(","): the text after the first comma, if there is one
AfterComma(s) ==
  IF s = <<>> THEN <<"nocomma">>
  ELSE IF Head(s) = "," THEN Tail(s) ELSE AfterComma(Tail(s))

\* decode_audio_base64: the bytes of the payload after the first comma, or of
\* the whole text when it has no comma
DecodeAudioBase64(data) ==
  LET rest == AfterComma(data)
      trimmed == IF rest = <<"nocomma">> THEN data ELSE rest
  IN  Base64Decode(trimmed)

\* ------------------------------------------------------------ store helpers
\* SpeechSession, without language and segments, which every operation
\* copies as they are; audio_path is "sessions/<id>/<file>"
Session(id, title, transcript, file, created_at) ==
  [id |-> id, title |-> title, transcript |-> transcript,
   audio_path |-> <<"sessions", id, file>>, created_at |-> created_at]

IdsOf(list) == {list[i].id : i \in 1..Len(list)}

\* serde_json::to_vec_pretty(sessions): one object per session, fields in
\* declaration order
Serialize(list) ==
  [i \in 1..Len(list) |->
     <<"id", list[i].id, "title", list[i].title, "transcript", list[i].transcript,
       "audio_path", list[i].audio_path, "created_at", list[i].created_at>>]

\* Vec::remove(index)
RemoveAt(list, i) == SubSeq(list, 1, i - 1) \o SubSeq(list, i + 1, Len(list))

\* A faulty variant of position: the first element when there is no match.
PositionOrFirst(list, id) ==
  IF id \in IdsOf(list)
  THEN CHOOSE i \in 1..Len(list) : list[i].id = id /\ \A j \in 1..(i - 1) : list[j].id # id
  ELSE IF list = <<>> THEN 0 ELSE 1

\* iter().position(|s| s.id == id): 0 when there is none
Position(list, id) ==
  IF id \in IdsOf(list)
  THEN CHOOSE i \in 1..Len(list) :
         list[i].id = id /\ \A j \in 1..(i - 1) : list[j].id # id
  ELSE 0

RECURSIVE InsertDesc(_, _)
\* where a stable descending sort puts x among the already sorted elements
InsertDesc(sorted, x) ==
  IF sorted = <<>> THEN <<x>>
  ELSE IF Head(sorted).created_at >= x.created_at
       THEN <<Head(sorted)>> \o InsertDesc(Tail(sorted), x)
       ELSE <<x>> \o sorted

\* A faulty variant of the sort: the list stays as it is.
SortNone(list) == list

RECURSIVE SortDesc(_)
\* sort_by(|a, b| b.created_at.cmp(&a.created_at)): stable, newest first
SortDesc(list) ==
  IF list = <<>> THEN <<>>
  ELSE InsertDesc(SortDesc(SubSeq(list, 1, Len(list) - 1)), list[Len(list)])

\* ------------------------------------------------------------ the model provisioner
\* how many calls of ensure_model are followed, how many chunks a download
\* streams at most, and how long a chunk is at most
MaxEnsure == 2
MaxChunks == 2
MaxChunkLen == 2
EnsureCalls == 1..MaxEnsure
ChunkLens == 0..MaxChunkLen

\* ModelStatusEvent of the given kind; ModelDownloadProgress is the kind
\* "Progress" and carries downloaded_bytes
Event(kind, bytes) == [kind |-> kind, bytes |-> bytes]

\* app.emit by call e
Emit(e, event) == events' = [events EXCEPT ![e] = Append(@, event)]

\* no call of ensure_model has started
ProvisionerIdle ==
  /\ epc = [e \in EnsureCalls |-> "idle"]
  /\ events = [e \in EnsureCalls |-> <<>>]
  /\ downloaded = [e \in EnsureCalls |-> 0]
  /\ eret = [e \in EnsureCalls |-> "none"]

\* the model is in place and nobody provisions it
ModelReady == modelFile = "complete" /\ bundled = FALSE /\ ProvisionerIdle

\* ensure_model returns r
EnsureReturn(e, r) ==
  /\ epc' = [epc EXCEPT ![e] = "done"]
  /\ eret' = [eret EXCEPT ![e] = r]

\* lines 315-323: the model file is there, whatever it holds
ensure_model_begin(e) ==
  /\ epc[e] = "idle"
  /\ IF modelFile # "absent"
     THEN /\ Emit(e, Event("Exists", 0))
          /\ EnsureReturn(e, "ready")
     ELSE /\ epc' = [epc EXCEPT ![e] = "mkdir"]
          /\ UNCHANGED <<events, eret>>
  /\ UNCHANGED <<modelFile, bundled, downloaded, jobVars, storeVars, ret, failed, given, dspVars>>

\* lines 325-327: fs::create_dir_all(parent)?
ensure_model_mkdir(e, ok) ==
  /\ epc[e] = "mkdir"
  /\ IF ok
     THEN epc' = [epc EXCEPT ![e] = "bundled"] /\ UNCHANGED eret
     ELSE EnsureReturn(e, "Io")
  /\ UNCHANGED <<modelFile, bundled, events, downloaded, jobVars, storeVars, ret, failed,
                 given, dspVars>>

\* lines 329-345 with try_copy_bundled_model: the first candidate that exists
\* is copied over model_path, and a copy that fails returns the error, leaving
\* what it had written; without a candidate the download is announced
ensure_model_bundled(e, copy) ==
  /\ epc[e] = "bundled"
  /\ IF bundled
     THEN IF copy = "ok"
          THEN /\ modelFile' = "complete"
               /\ Emit(e, Event("Finished", 0))
               /\ EnsureReturn(e, "ready")
          ELSE /\ modelFile' = IF copy = "partial" THEN "partial" ELSE modelFile
               /\ EnsureReturn(e, "Io")
               /\ UNCHANGED events
     ELSE /\ copy = "ok"
          /\ Emit(e, Event("Downloading", 0))
          /\ epc' = [epc EXCEPT ![e] = "request"]
          /\ UNCHANGED <<modelFile, eret>>
  /\ UNCHANGED <<bundled, downloaded, jobVars, storeVars, ret, failed, given, dspVars>>

\* lines 416-422: the request; it fails, or answers with a status that is
\* not a success, or answers
download_model_request(e, answer) ==
  /\ epc[e] = "request"
  /\ epc' = [epc EXCEPT ![e] = IF answer = "ok" THEN "create" ELSE "failed"]
  /\ UNCHANGED <<modelFile, bundled, events, downloaded, eret, jobVars, storeVars, ret,
                 failed, given, dspVars>>

\* lines 424-427: File::create(&self.model_path)? makes the file or empties it
download_model_create(e, ok) ==
  /\ epc[e] = "create"
  /\ IF ok
     THEN /\ modelFile' = "partial"
          /\ downloaded' = [downloaded EXCEPT ![e] = 0]
          /\ epc' = [epc EXCEPT ![e] = "stream"]
     ELSE /\ epc' = [epc EXCEPT ![e] = "failed"]
          /\ UNCHANGED <<modelFile, downloaded>>
  /\ UNCHANGED <<bundled, events, eret, jobVars, storeVars, ret, failed, given, dspVars>>

\* how many chunks call e has received
Chunks(e) == Len(SelectSeq(events[e], LAMBDA ev : ev.kind = "Progress"))

\* lines 429-438, one turn of the loop: the stream gives an error, or a chunk
\* of len bytes whose writing fails or succeeds
download_model_chunk(e, len, outcome) ==
  /\ epc[e] = "stream"
  /\ Chunks(e) < MaxChunks
  /\ IF outcome = "ok"
     THEN /\ downloaded' = [downloaded EXCEPT ![e] = @ + len]
          /\ Emit(e, Event("Progress", downloaded'[e]))
          /\ UNCHANGED epc
     ELSE /\ epc' = [epc EXCEPT ![e] = "failed"]
          /\ UNCHANGED <<downloaded, events>>
  /\ UNCHANGED <<modelFile, bundled, eret, jobVars, storeVars, ret, failed, given, dspVars>>

\* lines 429 and 440-442, then 348-356: the stream ends and the file is
\* flushed; on success Finished is emitted and the call returns
download_model_end(e, ok) ==
  /\ epc[e] = "stream"
  /\ IF ok
     THEN /\ modelFile' = "complete"
          /\ Emit(e, Event("Finished", 0))
          /\ EnsureReturn(e, "downloaded")
     ELSE /\ epc' = [epc EXCEPT ![e] = "failed"]
          /\ UNCHANGED <<modelFile, events, eret>>
  /\ UNCHANGED <<bundled, downloaded, jobVars, storeVars, ret, failed, given, dspVars>>

\* lines 357-370: Failed is emitted, the file is removed if it is there and
\* can be removed, and the error is returned
ensure_model_failed(e, removed) ==
  /\ epc[e] = "failed"
  /\ Emit(e, Event("Failed", 0))
  /\ modelFile' = IF modelFile # "absent" /\ removed THEN "absent" ELSE modelFile
  /\ EnsureReturn(e, "Err")
  /\ UNCHANGED <<bundled, downloaded, jobVars, storeVars, ret, failed, given, dspVars>>

\* ------------------------------------------------------------ the audio decoder
\* how many samples a WAV file of the model holds at most
MaxSamples == 2

\* i32::MIN and i32::MAX
I32Min == -2147483647 - 1
I32Max == 2147483647

\* An integer too wide for 32 bits is kept as hi * 2^16 + lo with lo in
\* 0..65535: sums of i32 samples and the products of a scale with a channel
\* count are such integers.
Wide(v) == [hi |-> v \div 65536, lo |-> v % 65536]
WideAdd(a, b) == [hi |-> a.hi + b.hi + ((a.lo + b.lo) \div 65536), lo |-> (a.lo + b.lo) % 65536]
WideTimes(a, n) == [hi |-> a.hi * n + ((a.lo * n) \div 65536), lo |-> (a.lo * n) % 65536]
WideNeg(a) == IF a.lo = 0 THEN [hi |-> 0 - a.hi, lo |-> 0] ELSE [hi |-> 0 - a.hi - 1, lo |-> 65536 - a.lo]
WideLeq(a, b) == a.hi < b.hi \/ (a.hi = b.hi /\ a.lo <= b.lo)
WideAbs(a) == IF a.hi < 0 THEN WideNeg(a) ELSE a

RECURSIVE WideSum(_)
WideSum(chunk) == IF chunk = <<>> THEN Wide(0) ELSE WideAdd(Wide(Head(chunk)), WideSum(Tail(chunk)))

\* An f32 is the exact quotient num / den of two wide integers.  Rounding to
\* f32 is monotone and keeps -1 and 1, so a quotient lies in [-1, 1] exactly
\* when the f32 does.
Quotient(num, den) == [num |-> num, den |-> den]

\* 2_i32.pow(n): for n = 31 the product overflows i32; a build with overflow
\* checks panics, a build without them wraps to i32::MIN
I32Pow2(n, checks) ==
  IF n < 31 THEN [panic |-> FALSE, value |-> 2 ^ n]
  ELSE IF checks THEN [panic |-> TRUE, value |-> 0]
  ELSE [panic |-> FALSE, value |-> I32Min]

RECURSIVE FrameChunks(_, _)
\* samples.chunks(channels): the last chunk may be short
FrameChunks(samples, channels) ==
  IF samples = <<>> THEN <<>>
  ELSE IF Len(samples) <= channels THEN <<samples>>
  ELSE <<SubSeq(samples, 1, channels)>>
         \o FrameChunks(SubSeq(samples, channels + 1, Len(samples)), channels)

\* reduce_channels on the samples v / scale: for one channel the samples as
\* they are, otherwise per chunk the sum divided by the channel count
ReduceChannels(samples, scale, channels) ==
  IF channels <= 1
  THEN [i \in 1..Len(samples) |-> Quotient(Wide(samples[i]), Wide(scale))]
  ELSE LET chunks == FrameChunks(samples, channels)
       IN  [i \in 1..Len(chunks) |-> Quotient(WideSum(chunks[i]), WideTimes(Wide(scale), channels))]

DecodeFailed(err) == [status |-> err, samples |-> <<>>, rate |-> 0, reads |-> {}]
Decoded(samples, rate) == [status |-> "Ok", samples |-> samples, rate |-> rate, reads |-> {}]

\* decode_wav_to_mono_f32 on a file of the given format, depth, channel count
\* and rate whose samples are data; float samples are data[i] / FloatDen
FloatDen == 4
DecodeWavToMonoF32(wav, checks) ==
  IF wav.channels = 0 THEN DecodeFailed("Audio")
  ELSE IF wav.format = "Float"
  THEN Decoded(ReduceChannels(wav.data, FloatDen, wav.channels), wav.rate)
  ELSE IF wav.bits = 8 THEN Decoded(ReduceChannels(wav.data, 127, wav.channels), wav.rate)
  ELSE IF wav.bits = 16 THEN Decoded(ReduceChannels(wav.data, 32767, wav.channels), wav.rate)
  ELSE IF wav.bits \in {24, 32}
  THEN LET scale == I32Pow2(wav.bits - 1, checks)
       IN  IF scale.panic THEN DecodeFailed("panic")
           ELSE Decoded(ReduceChannels(wav.data, scale.value, wav.channels), wav.rate)
  ELSE DecodeFailed("UnsupportedBitDepth")

\* neither the decoder nor the resampler has run, and none is asked to
NoSignal == [kind |-> "none"]
NoOutput == [status |-> "none", samples |-> <<>>, rate |-> 0, reads |-> {}]
DspIdle == dspIn = NoSignal /\ dspOut = NoOutput

\* the decoder runs on the file of dspIn
decode_wav_to_mono_f32 ==
  /\ dspIn.kind = "wav"
  /\ dspOut = NoOutput
  /\ dspOut' = DecodeWavToMonoF32(dspIn, dspIn.checks)
  /\ UNCHANGED <<dspIn, jobVars, storeVars, ret, failed, given, modelVars>>

\* ------------------------------------------------------------ the resampler
\* how long a buffer of the model is at most, and the greatest sample rate
MaxBuffer == 7
MaxRate == 5

RECURSIVE OddPart(_)
OddPart(n) == IF n % 2 = 0 THEN OddPart(n \div 2) ELSE n

\* from_rate as f64 / to_rate as f64 is the exact ratio: it has a finite
\* binary expansion
ExactRatio(from, to) == from % OddPart(to) = 0

\* (samples.len() as f64 / ratio).round() as usize: the exact quotient rounded
\* half away from zero; when the ratio is not exact in f64, a quotient that
\* lies on a half may come out on either side of it
TargetLens(len, from, to) ==
  LET up == (2 * len * to + from) \div (2 * from)
      tie == (2 * len * to) % (2 * from) = from
  IN  IF tie /\ ~ExactRatio(from, to) THEN {up - 1, up} ELSE {up}

\* (i as f64 * ratio).floor() as usize; when the ratio is not exact and is
\* rounded down (low), a position that is a whole number may come out just
\* below it
SrcIdx(i, from, to, low) ==
  LET q == (i * from) \div to
  IN  IF low /\ (i * from) % to = 0 /\ ~ExactRatio(from, to) /\ q > 0 THEN q - 1 ELSE q

\* A faulty variant of the index of the next sample: not held back at the end.
NextIdxUnclamped(idx, len) == idx + 1

\* (src_idx + 1).min(samples.len() - 1)
NextIdx(idx, len) == IF idx + 1 < len - 1 THEN idx + 1 ELSE len - 1

\* samples[idx]; reading past the end panics, and no value is read
SampleAt(samples, idx) == IF idx + 1 \in 1..Len(samples) THEN samples[idx + 1] ELSE Quotient(0, 1)

\* resample_audio on samples that are quotients of one denominator, with the
\* target length and the rounding the f64 arithmetic gave; reads are the
\* indexes read
ResampleAudio(samples, from, to, target, low) ==
  IF samples = <<>> \/ from = to
  THEN [status |-> "Ok", samples |-> samples, rate |-> to, reads |-> {}]
  ELSE LET len == Len(samples)
           idx(i) == SrcIdx(i, from, to, low)
           \* the turns of the loop before the break of line 875
           turns == Cardinality({i \in 0..(target - 1) : \A j \in 0..i : idx(j) < len})
           reads == UNION {{idx(i), NextIdx(idx(i), len)} : i \in 0..(turns - 1)}
           out == [k \in 1..turns |->
                     LET s0 == SampleAt(samples, idx(k - 1))
                         s1 == SampleAt(samples, NextIdx(idx(k - 1), len))
                         \* frac is r / to
                         r == (k - 1) * from - idx(k - 1) * to
                     IN  Quotient(s0.num * to + (s1.num - s0.num) * r, s0.den * to)]
       IN  IF reads \subseteq 0..(len - 1)
           THEN [status |-> "Ok", samples |-> out, rate |-> to, reads |-> reads]
           ELSE [status |-> "panic", samples |-> <<>>, rate |-> to, reads |-> reads]

\* the resampler runs on the buffer of dspIn, from its rate to the other
resample_audio(target, low) ==
  /\ dspIn.kind = "pcm"
  /\ dspOut = NoOutput
  /\ target \in TargetLens(Len(dspIn.data), dspIn.from, dspIn.to)
  /\ dspOut' = [ResampleAudio(dspIn.data, dspIn.from, dspIn.to, target, low)
                  EXCEPT !.status = IF @ = "Ok" THEN "once" ELSE @]
  /\ UNCHANGED <<dspIn, jobVars, storeVars, ret, failed, given, modelVars>>

\* the resampler runs on what it returned, back to the first rate
resample_back(target, low) ==
  /\ dspIn.kind = "pcm"
  /\ dspOut.status = "once"
  /\ target \in TargetLens(Len(dspOut.samples), dspIn.to, dspIn.from)
  /\ dspOut' = [ResampleAudio(dspOut.samples, dspIn.to, dspIn.from, target, low)
                  EXCEPT !.status = IF @ = "Ok" THEN "twice" ELSE @]
  /\ UNCHANGED <<dspIn, jobVars, storeVars, ret, failed, given, modelVars>>

\* ------------------------------------------------------------ initial state
\* SpeechManager::new on a fresh data directory: no sessions, sessions.json
\* written as "[]", sessions/ empty, no active transcription.
Init ==
  /\ sessions = <<>>
  /\ slot = 0
  /\ flag = [c \in Calls |-> FALSE]
  /\ released = [c \in Calls |-> FALSE]
  /\ dropTasks = {}
  /\ pc = [c \in Calls |-> "idle"]
  /\ result = [c \in Calls |-> "none"]
  /\ ts = [c \in Calls |-> 0]
  /\ worker = [c \in Calls |-> "none"]
  /\ wres = [c \in Calls |-> NoRes]
  /\ clock = 1
  /\ index = Serialize(<<>>)
  /\ dirs = [id \in Ids |-> NoDir]
  /\ ret = "none"
  /\ failed = 0
  /\ given = <<>>
  /\ ModelReady
  /\ DspIdle

\* ------------------------------------------------------------ the admission slot
\* A faulty variant of acquire: the caller takes the slot whoever is in it.
AcquireSteal(c) == c

\* ActiveTranscriptionHandle::acquire, the section under the lock: the slot
\* after call c asks for it
Acquire(c) == IF slot # 0 THEN slot ELSE c

\* ActiveTranscriptionHandle::release: the slot is cleared whoever is in it
Release(c) == 0

\* Faulty variants of Drop: one that spawns the release whatever the released
\* field says, one that never spawns it.
DropHandleAlways(c, rel) == dropTasks \cup {c}
DropHandleNever(c, rel) == dropTasks

\* impl Drop for ActiveTranscriptionHandle: the release tasks pending after
\* call c's handle is dropped with its released field being rel
DropHandle(c, rel) == IF rel THEN dropTasks ELSE dropTasks \cup {c}

\* A faulty variant of the holder of the mutex: the call whose worker is
\* inside transcribe_blocking holds it.
LockHolderInference ==
  IF \E c \in Calls : worker[c] \in {"decode", "load", "poll", "compute", "full_err"}
  THEN CHOOSE c \in Calls : worker[c] \in {"decode", "load", "poll", "compute", "full_err"}
  ELSE 0

\* Who holds the mutex of SpeechState between two steps: nobody.  Every guard
\* is taken and dropped with no await in between (lines 68-74, 85-87, 98-99,
\* 446-447, 451-464, 477-499, 503-509, 604-608, 620-649, 660-704), and the
\* closure given to spawn_blocking holds none (lines 547-552).
LockHolder == 0

\* self.state.lock().await returns
LockFree == LockHolder = 0

\* SpeechManager::list_sessions: it reads the list under the lock
list_sessions == LockFree /\ UNCHANGED vars

\* the task Drop spawned runs: it clears the slot whoever is in it
drop_release(c) ==
  /\ c \in dropTasks
  /\ LockFree
  /\ slot' = 0
  /\ dropTasks' = dropTasks \ {c}
  /\ UNCHANGED <<flag, released, pc, result, ts, worker, wres, clock, storeVars, ret, failed, given, modelVars, dspVars>>

\* A faulty variant of cancel_transcription: it answers true whether or not a
\* job is active.
cancel_always_true ==
  /\ flag' = IF slot # 0 THEN [flag EXCEPT ![slot] = TRUE] ELSE flag
  /\ ret' = "true"
  /\ UNCHANGED <<slot, released, dropTasks, pc, result, ts, worker, wres, clock,
                 storeVars, failed, given, modelVars, dspVars>>

\* SpeechManager::cancel_transcription
cancel_transcription ==
  /\ LockFree
  /\ IF slot # 0
     THEN /\ flag' = [flag EXCEPT ![slot] = TRUE]
          /\ ret' = "true"
     ELSE /\ flag' = flag
          /\ ret' = "false"
  /\ UNCHANGED <<slot, released, dropTasks, pc, result, ts, worker, wres, clock,
                 storeVars, failed, given, modelVars, dspVars>>

\* ------------------------------------------------------------ transcribe_audio
\* A call returns r; its handle, if it has one, is dropped.
Return(c, r, hasHandle, rel) ==
  /\ pc' = [pc EXCEPT ![c] = "done"]
  /\ result' = [result EXCEPT ![c] = r]
  /\ dropTasks' = IF hasHandle THEN DropHandle(c, rel) ELSE dropTasks

\* lines 516-520: parse the language, decode the payload, acquire the slot.
\* Nothing before the lock touches shared state, so the three are one step.
\* Call c's session id is c itself: Uuid::new_v4 gives each call a fresh one.
transcribe_audio_begin(c, tag, data) ==
  /\ pc[c] = "idle"
  /\ \A d \in Calls : d < c => pc[d] # "idle"
  /\ IF TryFromLanguage(tag) = "UnsupportedLanguage"
     THEN Return(c, "UnsupportedLanguage", FALSE, FALSE) /\ UNCHANGED <<slot, released>>
     ELSE IF ~DecodeAudioBase64(data).ok
     THEN Return(c, "Audio", FALSE, FALSE) /\ UNCHANGED <<slot, released>>
     ELSE IF Acquire(c) # c
     THEN /\ LockFree
          /\ Return(c, "TranscriptionInProgress", FALSE, FALSE)
          /\ UNCHANGED <<slot, released>>
     ELSE /\ LockFree
          /\ slot' = Acquire(c)
          /\ released' = [released EXCEPT ![c] = FALSE]
          /\ pc' = [pc EXCEPT ![c] = "mkdir"]
          /\ UNCHANGED <<result, dropTasks>>
  /\ UNCHANGED <<flag, ts, worker, wres, clock, storeVars, ret, failed, given, modelVars, dspVars>>

\* line 523: fs::create_dir_all(&session_dir)
transcribe_audio_mkdir(c, ok) ==
  /\ pc[c] = "mkdir"
  /\ IF ok
     THEN /\ dirs' = [dirs EXCEPT ![c] = IF dirs[c] = NoDir THEN {} ELSE dirs[c]]
          /\ pc' = [pc EXCEPT ![c] = "mkparent"]
          /\ UNCHANGED result
     ELSE /\ pc' = [pc EXCEPT ![c] = "release_mkdir"]
          /\ result' = [result EXCEPT ![c] = "Io"]
          /\ UNCHANGED dirs
  /\ UNCHANGED <<slot, flag, released, dropTasks, ts, worker, wres, clock, sessions,
                 index, ret, failed, given, modelVars, dspVars>>

\* lines 530-536: fs::create_dir_all(parent) of the recording's path, which is
\* the session directory again
transcribe_audio_mkparent(c, ok) ==
  /\ pc[c] = "mkparent"
  /\ IF ok
     THEN pc' = [pc EXCEPT ![c] = "write"] /\ UNCHANGED result
     ELSE /\ pc' = [pc EXCEPT ![c] = "release_err"]
          /\ result' = [result EXCEPT ![c] = "Io"]
  /\ UNCHANGED <<slot, flag, released, dropTasks, ts, worker, wres, clock, storeVars, ret, failed, given, modelVars, dspVars>>

\* A faulty variant of the write: nothing reaches the disk.
WriteNothing(files) == files

\* line 537: fs::write(&audio_path, &audio_bytes)
WriteRecording(files) == files \cup {RECORDING}

transcribe_audio_write(c, ok) ==
  /\ pc[c] = "write"
  /\ IF ok
     THEN /\ dirs' = [dirs EXCEPT ![c] = WriteRecording(dirs[c])]
          /\ pc' = [pc EXCEPT ![c] = "spawn"]
          /\ UNCHANGED result
     ELSE /\ pc' = [pc EXCEPT ![c] = "release_err"]
          /\ result' = [result EXCEPT ![c] = "Io"]
          /\ UNCHANGED dirs
  /\ UNCHANGED <<slot, flag, released, dropTasks, ts, worker, wres, clock, sessions,
                 index, ret, failed, given, modelVars, dspVars>>

\* line 547: async_runtime::spawn_blocking starts transcribe_blocking
transcribe_audio_spawn(c) ==
  /\ pc[c] = "spawn"
  /\ worker' = [worker EXCEPT ![c] = "decode"]
  /\ pc' = [pc EXCEPT ![c] = "join"]
  /\ UNCHANGED <<slot, flag, released, dropTasks, result, ts, wres, clock, storeVars, ret, failed, given, modelVars, dspVars>>

\* lines 553-573, up to the release: the join handle resolves
transcribe_audio_join(c) ==
  /\ pc[c] = "join"
  /\ worker[c] \in {"finished", "panicked"}
  /\ IF worker[c] = "panicked"
     THEN /\ pc' = [pc EXCEPT ![c] = "release_err"]
          /\ result' = [result EXCEPT ![c] = "Join"]
     ELSE IF wres[c].ok
     THEN pc' = [pc EXCEPT ![c] = "release_ok"] /\ UNCHANGED result
     ELSE /\ pc' = [pc EXCEPT ![c] = "release_err"]
          /\ result' = [result EXCEPT ![c] = wres[c].err]
  /\ UNCHANGED <<slot, flag, released, dropTasks, ts, worker, wres, clock, storeVars, ret, failed, given, modelVars, dspVars>>

\* active_guard.release().await at lines 524, 532, 538, 557, 565 and 569
transcribe_audio_release(c) ==
  /\ pc[c] \in {"release_mkdir", "release_err", "release_ok"}
  /\ ~released[c]
  /\ LockFree
  /\ slot' = Release(c)
  /\ released' = [released EXCEPT ![c] = TRUE]
  /\ IF pc[c] = "release_mkdir"
     THEN Return(c, result[c], TRUE, released'[c])
     ELSE /\ pc' = [pc EXCEPT ![c] = IF pc[c] = "release_err" THEN "cleanup" ELSE "transcript"]
          /\ UNCHANGED <<result, dropTasks>>
  /\ UNCHANGED <<flag, ts, worker, wres, clock, storeVars, ret, failed, given, modelVars, dspVars>>

\* A faulty variant of the removal: the directory stays.
RemoveDirNone(id) == dirs

\* let _ = fs::remove_dir_all(&session_dir) at lines 533, 539, 558 and 570
RemoveDirAll(id) == [dirs EXCEPT ![id] = NoDir]

\* the error branches after the release: remove the directory, return the error
transcribe_audio_cleanup(c) ==
  /\ pc[c] = "cleanup"
  /\ dirs' = RemoveDirAll(c)
  /\ Return(c, result[c], TRUE, released[c])
  /\ UNCHANGED <<slot, flag, released, ts, worker, wres, clock, sessions, index, ret, failed, given, modelVars, dspVars>>

\* lines 575-586: read the clock, write transcript.txt
transcribe_audio_transcript(c, ok) ==
  /\ pc[c] = "transcript"
  /\ ts' = [ts EXCEPT ![c] = clock]
  /\ clock' = clock + 1
  /\ IF ok
     THEN /\ dirs' = [dirs EXCEPT ![c] = dirs[c] \cup {TRANSCRIPT}]
          /\ pc' = [pc EXCEPT ![c] = "segments"]
          /\ UNCHANGED <<result, dropTasks>>
     ELSE /\ Return(c, "Io", TRUE, released[c])
          /\ UNCHANGED dirs
  /\ UNCHANGED <<slot, flag, released, worker, wres, sessions, index, ret, failed, given, modelVars, dspVars>>

\* lines 588-592: write segments.json
transcribe_audio_segments(c, ok) ==
  /\ pc[c] = "segments"
  /\ IF ok
     THEN /\ dirs' = [dirs EXCEPT ![c] = dirs[c] \cup {SEGMENTS}]
          /\ pc' = [pc EXCEPT ![c] = "insert"]
          /\ UNCHANGED <<result, dropTasks>>
     ELSE /\ Return(c, "Io", TRUE, released[c])
          /\ UNCHANGED dirs
  /\ UNCHANGED <<slot, flag, released, ts, worker, wres, clock, sessions, index, ret, failed, given, modelVars, dspVars>>

\* lines 581-583: the title given, unless it is blank
TitleOf(title_override) ==
  IF title_override # NoText /\ Trim(title_override) # <<>>
  THEN title_override
  ELSE DefaultTitle

\* persist_sessions: sessions.json after writing list, the write succeeding or not
PersistSessions(list, ok) == IF ok THEN Serialize(list) ELSE index

\* lines 594-610: build the session, insert it at the front, persist
transcribe_audio_insert(c, title_override, ok) ==
  /\ pc[c] = "insert"
  /\ LockFree
  /\ sessions' = <<Session(c, TitleOf(title_override), wres[c].transcript, RECORDING,
                           ts[c])>> \o sessions
  /\ index' = PersistSessions(sessions', ok)
  /\ Return(c, IF ok THEN "Ok" ELSE "Io", TRUE, released[c])
  /\ ret' = result'[c]
  /\ UNCHANGED <<slot, flag, released, ts, worker, wres, clock, dirs, failed, given, modelVars, dspVars>>

\* The future of the call is dropped where it is suspended: at the await of
\* the join handle, of a release or of the last lock.  Its handle is dropped
\* with it; the blocking worker is not stopped.
transcribe_audio_abandon(c) ==
  /\ pc[c] \in {"join", "release_mkdir", "release_err", "release_ok", "insert"}
  /\ pc' = [pc EXCEPT ![c] = "abandoned"]
  /\ dropTasks' = DropHandle(c, released[c])
  /\ UNCHANGED <<slot, flag, released, result, ts, worker, wres, clock, storeVars, ret, failed, given, modelVars, dspVars>>

\* ------------------------------------------------------------ transcribe_blocking
Running == {"decode", "load", "poll", "compute", "full_err"}

WorkerErr(e) == [ok |-> FALSE, err |-> e, transcript |-> <<>>, segments |-> <<>>]

\* segment.to_str_lossy()?.trim() of each segment the engine gives (line 767)
TextValues(engine) == [i \in 1..Len(engine) |-> Trim(engine[i])]

RECURSIVE JoinLines(_, _)
\* lines 768-773: a text that is not empty is appended to the transcript,
\* after a newline when the transcript is not empty
JoinLines(transcript, texts) ==
  IF texts = <<>> THEN transcript
  ELSE JoinLines(IF Head(texts) = <<>> THEN transcript
                 ELSE IF transcript = <<>> THEN Head(texts)
                 ELSE transcript \o <<"\n">> \o Head(texts),
                 Tail(texts))

\* lines 775-781: every segment is pushed, with its trimmed text; the times
\* are left out
SegmentsOf(engine) == TextValues(engine)

\* lines 763-789: the result built from the segment texts of the engine
WorkerOk(engine) ==
  [ok |-> TRUE, err |-> "none", transcript |-> JoinLines(<<>>, TextValues(engine)),
   segments |-> SegmentsOf(engine)]

\* the closure returns r
Finished(c, r) ==
  /\ worker' = [worker EXCEPT ![c] = "finished"]
  /\ wres' = [wres EXCEPT ![c] = r]

\* line 724: decode_wav_to_mono_f32(audio_bytes)?, the bytes being a WAV file or not
transcribe_blocking_decode(c, ok) ==
  /\ worker[c] = "decode"
  /\ IF ok
     THEN worker' = [worker EXCEPT ![c] = "load"] /\ UNCHANGED wres
     ELSE Finished(c, WorkerErr("Audio"))
  /\ UNCHANGED <<slot, flag, released, dropTasks, pc, result, ts, clock, storeVars, ret, failed, given, modelVars, dspVars>>

\* lines 731-734: the model path, WhisperContext::new_with_params, create_state
transcribe_blocking_load(c, ok) ==
  /\ worker[c] = "load"
  /\ IF ok
     THEN worker' = [worker EXCEPT ![c] = "poll"] /\ UNCHANGED wres
     ELSE Finished(c, WorkerErr("Whisper"))
  /\ UNCHANGED <<slot, flag, released, dropTasks, pc, result, ts, clock, storeVars, ret, failed, given, modelVars, dspVars>>

\* lines 747-749: state.full calls the abort callback before a stretch of
\* work; the callback loads the flag and a true answer aborts the inference
transcribe_blocking_poll(c) ==
  /\ worker[c] = "poll"
  /\ worker' = [worker EXCEPT ![c] = IF flag[c] THEN "full_err" ELSE "compute"]
  /\ UNCHANGED <<slot, flag, released, dropTasks, pc, result, ts, wres, clock,
                 storeVars, ret, failed, given, modelVars, dspVars>>

\* state.full has more work to do after this stretch
transcribe_blocking_more(c) ==
  /\ worker[c] = "compute"
  /\ worker' = [worker EXCEPT ![c] = "poll"]
  /\ UNCHANGED <<slot, flag, released, dropTasks, pc, result, ts, wres, clock,
                 storeVars, ret, failed, given, modelVars, dspVars>>

\* line 753 and lines 763-789: state.full returns after its last stretch of
\* work: an error of its own, or Ok, after which the segments are collected
\* into text (segment.to_str_lossy()? may fail)
transcribe_blocking_full(c, outcome, text) ==
  /\ worker[c] = "compute"
  /\ CASE outcome = "ok" -> Finished(c, WorkerOk(text))
       [] outcome = "segment_err" -> Finished(c, WorkerErr("Whisper"))
       [] OTHER -> worker' = [worker EXCEPT ![c] = "full_err"] /\ UNCHANGED wres
  /\ UNCHANGED <<slot, flag, released, dropTasks, pc, result, ts, clock, storeVars, ret, failed, given, modelVars, dspVars>>

\* lines 755-760: the error of state.full, or Cancelled when the flag is set
FullError(cancelled) == IF cancelled THEN "TranscriptionCancelled" ELSE "Whisper"

transcribe_blocking_full_err(c) ==
  /\ worker[c] = "full_err"
  /\ Finished(c, WorkerErr(FullError(flag[c])))
  /\ UNCHANGED <<slot, flag, released, dropTasks, pc, result, ts, clock, storeVars, ret, failed, given, modelVars, dspVars>>

\* the closure panics: the join handle resolves to a JoinError
transcribe_blocking_panic(c) ==
  /\ worker[c] \in Running
  /\ worker' = [worker EXCEPT ![c] = "panicked"]
  /\ UNCHANGED <<slot, flag, released, dropTasks, pc, result, ts, wres, clock,
                 storeVars, ret, failed, given, modelVars, dspVars>>

\* ------------------------------------------------------------ the session store
\* A store call returns r: the failed calls are counted, and capped.
Failures(r) ==
  /\ failed' = IF r \in {"Io", "Audio"} THEN failed + 1 ELSE failed
  /\ failed' <= MaxFailed

\* A faulty variant of delete_session: an id that is not in the list is an error.
delete_session_strict(id, fault) ==
  /\ IF Position(sessions, id) = 0
     THEN ret' = "SessionNotFound" /\ UNCHANGED storeVars
     ELSE /\ sessions' = RemoveAt(sessions, Position(sessions, id))
          /\ index' = PersistSessions(sessions', TRUE)
          /\ dirs' = RemoveDirAll(id)
          /\ ret' = "Ok"
  /\ UNCHANGED <<jobVars, failed, given, modelVars, dspVars>>

\* SpeechManager::delete_session; fault names the filesystem call that fails
delete_session(id, fault) ==
  LET pos == Position(sessions, id)
      list == RemoveAt(sessions, pos)
  IN  /\ LockFree
      /\ IF pos = 0
         THEN /\ ret' = "Ok"
              /\ UNCHANGED storeVars
         ELSE /\ sessions' = list
              /\ index' = PersistSessions(list, fault # "persist")
              /\ IF fault = "persist"
                 THEN ret' = "Io" /\ UNCHANGED dirs
                 ELSE IF dirs[id] # NoDir /\ fault = "rmdir"
                 THEN ret' = "Io" /\ UNCHANGED dirs
                 ELSE ret' = "Ok" /\ dirs' = RemoveDirAll(id)
      /\ Failures(ret')
      /\ UNCHANGED <<jobVars, given, modelVars, dspVars>>

\* lines 484-489: the title of the payload, applied when it is not blank
UpdateTitle(old, title) ==
  IF title # NoText /\ Trim(title) # <<>> THEN Trim(title) ELSE old

\* lines 491-492: the transcript of the payload, applied when it is given
UpdateTranscript(old, transcript) == IF transcript # NoText THEN transcript ELSE old

\* SpeechManager::update_session; writing transcript.txt fails by fault or
\* because the session's directory does not exist
update_session(id, title, transcript, fault) ==
  LET pos == Position(sessions, id)
      updated == [sessions[pos] EXCEPT
                    !.title = UpdateTitle(@, title),
                    !.transcript = UpdateTranscript(@, transcript)]
      list == [sessions EXCEPT ![pos] = updated]
      writes == transcript # NoText
      written == writes /\ dirs[id] # NoDir /\ fault # "sidecar"
  IN  /\ LockFree
      /\ IF pos = 0
         THEN /\ ret' = "SessionNotFound"
              /\ UNCHANGED storeVars
         ELSE /\ sessions' = list
              /\ dirs' = IF written THEN [dirs EXCEPT ![id] = @ \cup {TRANSCRIPT}] ELSE dirs
              /\ IF writes /\ ~written
                 THEN ret' = "Io" /\ UNCHANGED index
                 ELSE /\ index' = PersistSessions(list, fault # "persist")
                      /\ ret' = IF fault = "persist" THEN "Io" ELSE "Ok"
      /\ Failures(ret')
      /\ UNCHANGED <<jobVars, given, modelVars, dspVars>>

\* sanitize_audio_filename; Path::file_name gives nothing for "." and ".."
SanitizeAudioFilename(input) ==
  LET trimmed == Trim(input)
  IN  IF trimmed = <<>> THEN RECORDING
      ELSE IF \E i \in 1..Len(trimmed) : trimmed[i] \in {"/", "\\"} THEN RECORDING
      ELSE IF trimmed \in {<<".">>, <<".", ".">>} THEN RECORDING
      ELSE trimmed

\* A faulty variant of the upsert: the session is pushed, whatever is there.
UpsertPush(list, session) == list \o <<session>>

\* lines 692-695: replace the session of the same id, the new one going last
Upsert(list, session) ==
  LET pos == Position(list, session.id)
  IN  (IF pos = 0 THEN list ELSE RemoveAt(list, pos)) \o <<session>>

\* lines 664-696, one record of the batch, on st = [list, dirs, err]; step
\* names the filesystem call that fails for this record, "none" if none does
ImportRecord(st, backup, step) ==
  LET id == backup.id
      file == SanitizeAudioFilename(backup.audio_filename)
      fail(files) == [st EXCEPT !.dirs = [st.dirs EXCEPT ![id] = files], !.err = "Io"]
      session == Session(id, backup.title, backup.transcript, file, backup.created_at)
  IN  IF ~DecodeAudioBase64(backup.audio_base64).ok THEN [st EXCEPT !.err = "Audio"]
      ELSE IF st.dirs[id] # NoDir /\ step = "rmdir" THEN [st EXCEPT !.err = "Io"]
      ELSE IF step = "mkdir" THEN fail(NoDir)
      ELSE IF step = "audio" THEN fail({})
      ELSE IF step = "transcript" THEN fail({file})
      ELSE IF step = "segments" THEN fail({file, TRANSCRIPT})
      ELSE [st EXCEPT !.dirs = [st.dirs EXCEPT ![id] = {file, TRANSCRIPT, SEGMENTS}],
                       !.list = Upsert(st.list, session)]

RECURSIVE ImportLoop(_, _, _, _)
\* the for loop of lines 663-697 from record k on; the loop ends at the first
\* error, so a filesystem call that fails does so for the last record looked
\* at: fault names that call
ImportLoop(st, batch, k, fault) ==
  IF k > Len(batch) \/ st.err # "none" THEN st
  ELSE ImportLoop(ImportRecord(st, batch[k], IF k = Len(batch) THEN fault ELSE "none"),
                  batch, k + 1, fault)

\* SpeechManager::import_sessions_data
import_sessions_data(batch, fault) ==
  LET st == ImportLoop([list |-> sessions, dirs |-> dirs, err |-> "none"], batch, 1, fault)
      sorted == SortDesc(st.list)
  IN  \* a fault injected once MaxFailed calls have failed leads nowhere new
      /\ fault = "none" \/ failed < MaxFailed
      /\ batch = <<>> \/ LockFree
      /\ IF batch = <<>>
         THEN /\ ret' = "Ok"
              /\ UNCHANGED storeVars
         ELSE /\ dirs' = st.dirs
              /\ IF st.err # "none"
                 THEN /\ sessions' = st.list
                      /\ ret' = st.err
                      /\ UNCHANGED index
                 ELSE /\ sessions' = sorted
                      /\ index' = PersistSessions(sorted, fault # "persist")
                      /\ ret' = IF fault = "persist" THEN "Io" ELSE "Ok"
      /\ Failures(ret')
      /\ UNCHANGED <<jobVars, given, modelVars, dspVars>>

\* lines 625-634: the file name of audio_path and the mime type chosen by its
\* extension; of the names used here only recording.wav ends in ".wav"
MimeOf(file) == IF file = RECORDING THEN "audio/wav" ELSE "application/octet-stream"

\* lines 635-636: the data URL of the audio bytes
DataUrl(file, bytes) == <<"data:", MimeOf(file), ";base64", ",">> \o Base64Encode(bytes)

RECURSIVE ExportLoop(_, _, _, _)
\* the for loop of lines 622-648 from session k on; files[id] are the files
\* of sessions/<id>/ and content[id] the bytes of its audio file; fs::read
\* fails when the file is not there
ExportLoop(list, files, content, k) ==
  IF k > Len(list) THEN [ok |-> TRUE, backups |-> <<>>]
  ELSE LET session == list[k]
           file == session.audio_path[3]
           rest == ExportLoop(list, files, content, k + 1)
           backup == [id |-> session.id, title |-> session.title,
                      transcript |-> session.transcript, created_at |-> session.created_at,
                      audio_filename |-> file,
                      audio_base64 |-> DataUrl(file, content[session.id])]
       IN  IF file \notin files[session.id] \/ ~rest.ok
           THEN [ok |-> FALSE, backups |-> <<>>]
           ELSE [ok |-> TRUE, backups |-> <<backup>> \o rest.backups]

\* SpeechManager::export_sessions_data: it reads, and changes nothing
ExportSessionsData(list, files, content) == ExportLoop(list, files, content, 1)

\* lines 664 and 673: the bytes import_sessions_data writes into the audio file
ImportedAudio(backup) == DecodeAudioBase64(backup.audio_base64).bytes

\* ------------------------------------------------------------ inputs
\* contents of an audio file: no byte, one, two and four bytes
AudioBytes == {<<>>, <<255>>, <<0, 1>>, <<77, 97, 110, 128>>}

LanguageInputs == {"en", "ZH", "fr"}
\* payloads: plain base64, a data URL, and one that lacks its padding
AudioInputs == {<<"A", "Q", "=", "=">>, <<"d", ",", "A", "Q", "=", "=">>, <<"A", "Q">>}
TitleInputs == {NoText, <<" ">>}
\* what the engine gives: one segment, or three of which the second is blank
EngineTexts == {<<<<"h">>>>, <<<<" ", "a">>, <<" ">>, <<"b", " ">>>>}
UpdateTitles == {NoText, <<" ">>}
UpdateTranscripts == {NoText, <<"e">>}

\* The ids a caller can name in a backup: those it made up, those of the
\* sessions of the list, and those transcribe_audio has returned.  The id of
\* a call still in flight has been shown to nobody.
KnownIds ==
  ForeignIds \cup IdsOf(sessions) \cup {c \in Calls : pc[c] = "done" /\ result[c] = "Ok"}

\* backup records: well-formed ones, and one whose audio is not base64
Backups ==
  [id : KnownIds, title : {<<"a">>}, transcript : {<<"x">>}, created_at : Times,
   audio_filename : {<<"f">>}, audio_base64 : {<<"A", "A", "=", "=">>}]
    \cup [id : ForeignIds, title : {<<"a">>}, transcript : {<<"x">>}, created_at : {0},
          audio_filename : {<<"f">>}, audio_base64 : {<<"!">>}]

Batches == UNION {[1..n -> Backups] : n \in 0..MaxBatch}

ImportFaults == {"none", "rmdir", "mkdir", "audio", "transcript", "segments", "persist"}

\* ------------------------------------------------------------ specification
CallStep(c) ==
  \/ transcribe_audio_spawn(c)
  \/ transcribe_audio_join(c)
  \/ transcribe_audio_release(c)
  \/ transcribe_audio_cleanup(c)
  \/ \E ok \in BOOLEAN :
       \/ transcribe_audio_mkdir(c, ok)
       \/ transcribe_audio_mkparent(c, ok)
       \/ transcribe_audio_write(c, ok)
       \/ transcribe_audio_transcript(c, ok)
       \/ transcribe_audio_segments(c, ok)
  \/ \E title \in TitleInputs, ok \in BOOLEAN : transcribe_audio_insert(c, title, ok)

WorkerEnd(c) ==
  \E outcome \in {"ok", "segment_err", "full_err"}, text \in EngineTexts :
    transcribe_blocking_full(c, outcome, text)

WorkerStep(c) ==
  \/ \E ok \in BOOLEAN : transcribe_blocking_decode(c, ok)
  \/ \E ok \in BOOLEAN : transcribe_blocking_load(c, ok)
  \/ transcribe_blocking_poll(c)
  \/ transcribe_blocking_full_err(c)

StoreStep ==
  \/ \E id \in Ids, fault \in {"none", "persist", "rmdir"} : delete_session(id, fault)
  \/ \E id \in Ids, title \in UpdateTitles, transcript \in UpdateTranscripts,
        fault \in {"none", "sidecar", "persist"} :
          update_session(id, title, transcript, fault)
  \/ \E batch \in Batches, fault \in ImportFaults : import_sessions_data(batch, fault)

Next ==
  \/ \E c \in Calls, tag \in LanguageInputs, data \in AudioInputs :
       transcribe_audio_begin(c, tag, data)
  \/ \E c \in Calls : CallStep(c)
  \/ \E c \in Calls : WorkerStep(c)
  \/ \E c \in Calls : transcribe_blocking_more(c)
  \/ \E c \in Calls : WorkerEnd(c)
  \/ \E c \in Calls : transcribe_blocking_panic(c)
  \/ \E c \in Calls : transcribe_audio_abandon(c)
  \/ \E c \in Calls : drop_release(c)
  \/ cancel_transcription
  \/ \E id \in Ids, fault \in {"none", "persist", "rmdir"} : delete_session(id, fault)

\* The coordinator: every interleaving of the calls of transcribe_audio, their
\* workers, abandonment, cancel_transcription and delete_session.
Spec == Init /\ [][Next]_vars

\* The store.  Up to its last step a call of transcribe_audio touches only the
\* slot and its own directory, whose id nobody else knows, so the store is
\* explored from the state in which the first call has been admitted, has
\* transcribed, released the slot, written its sidecar files and stands before
\* the lock of lines 604-608.  It inserts at any moment, or never, in every
\* interleaving with delete_session, update_session and import_sessions_data.
StoreInit ==
  /\ sessions = <<>>
  /\ slot = 0
  /\ flag = [c \in Calls |-> FALSE]
  /\ released = [c \in Calls |-> c = 1]
  /\ dropTasks = {}
  /\ pc = [c \in Calls |-> IF c = 1 THEN "insert" ELSE "idle"]
  /\ result = [c \in Calls |-> "none"]
  /\ ts = [c \in Calls |-> IF c = 1 THEN 1 ELSE 0]
  /\ worker = [c \in Calls |-> IF c = 1 THEN "finished" ELSE "none"]
  /\ wres = [c \in Calls |-> IF c = 1 THEN WorkerOk(<<<<"h">>>>) ELSE NoRes]
  /\ clock = 2
  /\ index = Serialize(<<>>)
  /\ dirs = [id \in Ids |-> IF id = 1 THEN {RECORDING, TRANSCRIPT, SEGMENTS} ELSE NoDir]
  /\ ret = "none"
  /\ failed = 0
  /\ given = <<>>
  /\ ModelReady
  /\ DspIdle

StoreNext ==
  \/ \E c \in Calls, title \in TitleInputs, ok \in BOOLEAN :
       transcribe_audio_insert(c, title, ok)
  \/ StoreStep

StoreSpec == StoreInit /\ [][StoreNext]_vars

\* update_session on its own, with payloads of every kind (a field absent,
\* empty, blank, or a text with blanks around it), from the store in which
\* the first call's session stands behind one an import brought in.
PayloadTitles == {NoText, <<>>, <<" ">>, <<" ", "t", " ">>}
PayloadTranscripts == {NoText, <<>>, <<" ">>, <<"e">>}
UpdateFaults == {"none", "sidecar", "persist"}

\* the store of two sessions: one an import brought in, in front of the one
\* the first call created
TwoSessions ==
  LET b == CHOOSE id \in ForeignIds : TRUE
      list == <<Session(b, <<"a">>, <<"x">>, <<"f">>, MaxTime),
                Session(1, DefaultTitle, <<"h">>, RECORDING, 1)>>
  IN  /\ sessions = list
      /\ slot = 0
      /\ flag = [c \in Calls |-> FALSE]
      /\ released = [c \in Calls |-> c = 1]
      /\ dropTasks = {}
      /\ pc = [c \in Calls |-> IF c = 1 THEN "done" ELSE "idle"]
      /\ result = [c \in Calls |-> IF c = 1 THEN "Ok" ELSE "none"]
      /\ ts = [c \in Calls |-> IF c = 1 THEN 1 ELSE 0]
      /\ worker = [c \in Calls |-> IF c = 1 THEN "finished" ELSE "none"]
      /\ wres = [c \in Calls |-> IF c = 1 THEN WorkerOk(<<<<"h">>>>) ELSE NoRes]
      /\ clock = 2
      /\ index = Serialize(list)
      /\ dirs = [id \in Ids |->
                  IF id = 1 THEN {RECORDING, TRANSCRIPT, SEGMENTS}
                  ELSE IF id = b THEN {<<"f">>, TRANSCRIPT, SEGMENTS} ELSE NoDir]
      /\ ret = "Ok"
      /\ failed = 0
      /\ ModelReady
      /\ DspIdle
  /\ DspIdle

UpdateInit == TwoSessions /\ given = <<>>

UpdateNext ==
  \E id \in Ids, title \in PayloadTitles, transcript \in PayloadTranscripts,
     fault \in UpdateFaults : update_session(id, title, transcript, fault)

UpdateSpec == UpdateInit /\ [][UpdateNext]_vars

\* import_sessions_data on its own: each run imports one batch, given from
\* the start, into the store of two sessions, as often as it likes.  The
\* records name the two sessions of the store and a climbing id, and carry
\* file names of every kind: plain, with a separator, "..", blank.
UploadNames == {<<"f">>, <<"a", "/", "b">>, <<".", ".">>, <<" ">>}

\* the titles of backups: a plain one and a blank one
BackupTitles == {<<"a">>, <<" ">>}

ImportBackups ==
  [id : {1} \cup ForeignIds \cup ClimbingIds, title : BackupTitles, transcript : {<<"x">>},
   created_at : Times, audio_filename : UploadNames,
   audio_base64 : {<<"A", "A", "=", "=">>}]
    \cup [id : ForeignIds, title : {<<"a">>}, transcript : {<<"x">>}, created_at : {0},
          audio_filename : {<<"f">>}, audio_base64 : {<<"!">>}]

ImportBatches == UNION {[1..n -> ImportBackups] : n \in 0..MaxBatch}

ImportInit == TwoSessions /\ given \in ImportBatches

ImportNext == \E fault \in ImportFaults : import_sessions_data(given, fault)

ImportSpec == ImportInit /\ [][ImportNext]_vars

\* The provisioner alone: no model file, or one left by an earlier run, with
\* or without a bundled candidate, and MaxEnsure calls of ensure_model in
\* every interleaving.
ModelInit ==
  /\ sessions = <<>>
  /\ slot = 0
  /\ flag = [c \in Calls |-> FALSE]
  /\ released = [c \in Calls |-> FALSE]
  /\ dropTasks = {}
  /\ pc = [c \in Calls |-> "idle"]
  /\ result = [c \in Calls |-> "none"]
  /\ ts = [c \in Calls |-> 0]
  /\ worker = [c \in Calls |-> "none"]
  /\ wres = [c \in Calls |-> NoRes]
  /\ clock = 1
  /\ index = Serialize(<<>>)
  /\ dirs = [id \in Ids |-> NoDir]
  /\ ret = "none"
  /\ failed = 0
  /\ given = <<>>
  /\ modelFile \in {"absent", "complete"}
  /\ bundled \in BOOLEAN
  /\ ProvisionerIdle
  /\ DspIdle

ModelNext ==
  \E e \in EnsureCalls :
    \/ ensure_model_begin(e)
    \/ \E ok \in BOOLEAN :
         \/ ensure_model_mkdir(e, ok)
         \/ download_model_create(e, ok)
         \/ download_model_end(e, ok)
         \/ ensure_model_failed(e, ok)
    \/ \E copy \in {"ok", "clean", "partial"} : ensure_model_bundled(e, copy)
    \/ \E answer \in {"ok", "send", "status"} : download_model_request(e, answer)
    \/ \E len \in ChunkLens, outcome \in {"ok", "stream", "write"} :
         download_model_chunk(e, len, outcome)

ModelSpec == ModelInit /\ [][ModelNext]_vars

\* The samples hound hands out for a depth: the least, the greatest and
\* values between
SamplesOf(format, bits) ==
  IF format = "Float" THEN {-6, 0, 4}
  ELSE IF bits = 8 THEN {-128, -127, 0, 127}
  ELSE IF bits = 16 THEN {-32768, -32767, 1, 32767}
  ELSE IF bits = 24 THEN {-8388608, 0, 8388607}
  ELSE IF bits = 32 THEN {I32Min, -1, I32Max}
  ELSE {0}

\* WAV files: integer files of the supported depths and of a depth that is
\* not, and float files; no channel, one or two; up to MaxSamples samples
WavFiles ==
  UNION {[kind : {"wav"}, format : {f}, bits : {b}, channels : 0..2, rate : {16000, 48000},
          checks : BOOLEAN,
          data : UNION {[1..n -> SamplesOf(f, b)] : n \in 0..MaxSamples}] :
         f \in {"Int", "Float"}, b \in {8, 12, 16, 24, 32}}

\* The decoder alone, on every file of WavFiles.
WavInit ==
  /\ sessions = <<>>
  /\ slot = 0
  /\ flag = [c \in Calls |-> FALSE]
  /\ released = [c \in Calls |-> FALSE]
  /\ dropTasks = {}
  /\ pc = [c \in Calls |-> "idle"]
  /\ result = [c \in Calls |-> "none"]
  /\ ts = [c \in Calls |-> 0]
  /\ worker = [c \in Calls |-> "none"]
  /\ wres = [c \in Calls |-> NoRes]
  /\ clock = 1
  /\ index = Serialize(<<>>)
  /\ dirs = [id \in Ids |-> NoDir]
  /\ ret = "none"
  /\ failed = 0
  /\ given = <<>>
  /\ ModelReady
  /\ dspIn \in WavFiles
  /\ dspOut = NoOutput

WavNext == decode_wav_to_mono_f32

WavSpec == WavInit /\ [][WavNext]_vars

\* Buffers: of every length up to MaxBuffer, constant or rising, with every
\* pair of rates up to MaxRate
PcmBuffers ==
  UNION {[kind : {"pcm"}, from : 1..MaxRate, to : 1..MaxRate,
          data : {[i \in 1..n |-> Quotient(1, 1)], [i \in 1..n |-> Quotient(i, 1)]}] :
         n \in 1..MaxBuffer}

\* The resampler alone: every buffer of PcmBuffers resampled, and back.
ResampleInit ==
  /\ sessions = <<>>
  /\ slot = 0
  /\ flag = [c \in Calls |-> FALSE]
  /\ released = [c \in Calls |-> FALSE]
  /\ dropTasks = {}
  /\ pc = [c \in Calls |-> "idle"]
  /\ result = [c \in Calls |-> "none"]
  /\ ts = [c \in Calls |-> 0]
  /\ worker = [c \in Calls |-> "none"]
  /\ wres = [c \in Calls |-> NoRes]
  /\ clock = 1
  /\ index = Serialize(<<>>)
  /\ dirs = [id \in Ids |-> NoDir]
  /\ ret = "none"
  /\ failed = 0
  /\ given = <<>>
  /\ ModelReady
  /\ dspIn \in PcmBuffers
  /\ dspOut = NoOutput

ResampleNext ==
  \E target \in 0..(MaxBuffer * MaxRate * MaxRate), low \in BOOLEAN :
    \/ resample_audio(target, low)
    \/ resample_back(target, low)

ResampleSpec == ResampleInit /\ [][ResampleNext]_vars

\* The runtime runs every task that can run: a call that is not abandoned
\* takes its next step, the blocking worker takes its next step and state.full
\* returns after finitely many stretches of work, and a spawned release runs.
Fairness ==
  \A c \in Calls :
    /\ WF_vars(CallStep(c))
    /\ WF_vars(WorkerStep(c))
    /\ SF_vars(WorkerEnd(c))
    /\ WF_vars(drop_release(c))

FairSpec == Spec /\ Fairness

\* ------------------------------------------------------------ properties
\* call c has acquired the slot and neither it nor the task its dropped handle
\* spawned has released it yet
Holds(c) ==
  \/ pc[c] \in {"mkdir", "mkparent", "write", "spawn", "join",
                "release_mkdir", "release_err", "release_ok"}
  \/ c \in dropTasks

\* C1: admission is mutually exclusive.  A call that holds the slot is the one
\* registered in it, so at most one call holds it; a call is admitted only
\* into an empty slot and is turned away with TranscriptionInProgress, the
\* slot untouched, when it is occupied; and the slot of call c is cleared by
\* nothing but c's own release or the task c's own dropped handle spawned.
C1_Holder == \A c \in Calls : Holds(c) => slot = c

C1_Step ==
  \A c \in Calls :
    /\ (pc[c] = "idle" /\ pc'[c] = "mkdir") => (slot = 0 /\ slot' = c)
    /\ (pc[c] = "idle" /\ pc'[c] = "done" /\ result'[c] = "TranscriptionInProgress")
         => (slot # 0 /\ slot' = slot)
    /\ (pc[c] = "idle" /\ pc'[c] # "idle" /\ slot # 0)
         => (pc'[c] = "done" /\ slot' = slot
             /\ result'[c] \in {"UnsupportedLanguage", "Audio", "TranscriptionInProgress"})
    /\ (slot = c /\ slot' # c) => (transcribe_audio_release(c) \/ drop_release(c))

C1_MutualExclusion == [](C1_Holder) /\ [][C1_Step]_vars

\* a call was turned away while an earlier one holds the slot and runs
C1_Witness ==
  \E c, d \in Calls :
    /\ slot = c /\ worker[c] \in Running
    /\ pc[d] = "done" /\ result[d] = "TranscriptionInProgress"

\* C2: at most one invocation of transcribe_blocking is running at any time,
\* also after a call was abandoned and the task of its dropped handle
\* released the slot.
C2_OneWorker == Cardinality({c \in Calls : worker[c] \in Running}) <= 1

\* C3: the slot is released on every exit path of an admitted call: whenever
\* call c is in the slot, the slot becomes empty later on, whether the call
\* returns, fails or is abandoned.
C3_Released == \A c \in Calls : (slot = c) ~> (slot = 0)

\* a call was abandoned with the slot, and a later call has been admitted
C3_Witness ==
  \E c, d \in Calls : pc[c] = "abandoned" /\ ~released[c] /\ c \notin dropTasks /\ slot = d

\* the errors of the engine step: what the worker returned, or its panic
EngineErrors == {"Audio", "Whisper", "TranscriptionCancelled", "Join"}

\* call c returned an error of its engine step
EngineFailed(c) == pc[c] = "done" /\ worker[c] # "none" /\ result[c] \in EngineErrors

\* C4: a cancel request that finds call c active, at whatever moment between
\* its admission and its release, makes the call resolve with
\* TranscriptionCancelled: a call whose flag was set has not returned
\* anything else.
C4_ResolvesCancelled ==
  \A c \in Calls : (pc[c] = "done" /\ flag[c]) => result[c] = "TranscriptionCancelled"

\* a step in which cancel_transcription returns: nothing else writes ret with
\* a boolean or sets a flag
CancelReturns == ret' \in {"true", "false"} /\ <<ret, flag>>' # <<ret, flag>>

\* C5: cancel_transcription returns true exactly when the slot is occupied,
\* and then sets the flag of the job in the slot and no other; it leaves the
\* slot, the list, the index, the directories, every call and every worker
\* as they are; and it can always return at once, whatever the job is doing.
C5_Step ==
  CancelReturns =>
    /\ ret' = "true" <=> slot # 0
    /\ flag' = [c \in Calls |-> flag[c] \/ c = slot]
    /\ UNCHANGED <<slot, sessions, index, dirs, released, dropTasks, pc, result, worker, wres>>

C5_CancelFrame == [](ENABLED cancel_transcription) /\ [][C5_Step]_vars

\* cancel_transcription has returned true and the job it flagged is still running
C5_Witness == \E c \in Calls : ret = "true" /\ slot = c /\ flag[c] /\ worker[c] \in Running

\* C6: a worker that fails while the flag of its call is set reports
\* TranscriptionCancelled, whatever failed: the decoding of the audio, the
\* loading of the model or the inference.
C6_Step ==
  \A c \in Calls :
    (flag[c] /\ worker[c] \in Running /\ worker'[c] = "finished" /\ ~wres'[c].ok)
      => wres'[c].err = "TranscriptionCancelled"

C6_CancelledWhateverFailed == [][C6_Step]_vars

\* C7: when the engine step fails, the call releases the slot, removes the
\* directory it created and returns the error; the session is not in the
\* list, and no step of the call from the join on touches list or index.
C7_State ==
  \A c \in Calls :
    EngineFailed(c) =>
      /\ slot # c /\ released[c] /\ c \notin dropTasks
      /\ dirs[c] = NoDir
      /\ c \notin IdsOf(sessions)

C7_Step ==
  \A c \in Calls :
    (pc[c] \in {"join", "release_err", "cleanup"} /\ pc'[c] # pc[c])
      => UNCHANGED <<sessions, index>>

C8_State ==
  \A c \in Calls :
    /\ (worker[c] # "none" /\ pc[c] # "done") => RECORDING \in dirs[c]
    /\ EngineFailed(c) => dirs[c] = NoDir

C8_Step ==
  \A c \in Calls :
    (RECORDING \in dirs[c] /\ RECORDING \notin dirs'[c])
      => \/ transcribe_audio_cleanup(c)
         \/ \E fault \in {"none", "persist", "rmdir"} : delete_session(c, fault)

C9_IndexIsList == ret = "Ok" => index = Serialize(sessions)

\* C10: no two sessions of the in-memory list share an id, after any sequence
\* of transcribe_audio, import_sessions_data (batches repeating an id or
\* reusing one of the list included), update_session and delete_session.
C10_UniqueIds ==
  \A i, j \in 1..Len(sessions) : sessions[i].id = sessions[j].id => i = j

\* an import has replaced the session transcribe_audio created, under the
\* same id, next to a session it brought in
C10_Witness ==
  /\ Len(sessions) = 2
  /\ \E i \in 1..2 : sessions[i].id \in Calls /\ sessions[i].title = <<"a">>
  /\ pc[1] = "done" /\ result[1] = "Ok"

\* the list is ordered by created_at, descending
NewestFirst(list) ==
  \A i, j \in 1..Len(list) : i < j => list[i].created_at >= list[j].created_at

\* C11: the list is newest first: after any sequence and interleaving of
\* transcribe_audio and import_sessions_data calls, here those in which no
\* call has failed, it is ordered by created_at descending.
C11_NewestFirst ==
  (failed = 0 /\ \A c \in Calls : result[c] # "Io") => NewestFirst(sessions)

DeleteFaults == {"none", "persist", "rmdir"}

\* C12: delete_session of an id in the list removes the session from the
\* list, rewrites the index and returns Ok also when the directory cannot be
\* removed: that failure is not escalated.
C12_Step ==
  \A id \in Ids :
    (id \in IdsOf(sessions) /\ delete_session(id, "rmdir"))
      => (ret' = "Ok" /\ id \notin IdsOf(sessions') /\ index' = Serialize(sessions'))

C12_BestEffortRemoval == [][C12_Step]_vars

\* C13: delete_session of an id that is not in the list returns Ok and
\* changes nothing: list, index, directories, slot, calls and workers are as
\* before.  After any delete_session the id is not in the list, so a second
\* delete of the same id is such a call.
C13_Step ==
  \A id \in Ids, fault \in DeleteFaults :
    delete_session(id, fault) =>
      /\ id \notin IdsOf(sessions')
      /\ id \notin IdsOf(sessions) => (ret' = "Ok" /\ UNCHANGED <<storeVars, jobVars, failed, given, modelVars, dspVars>>)

C13_AbsentIsNoOp == [][C13_Step]_vars

\* the session of the first call was deleted, the removal of its directory
\* failed, and a later delete_session of the same id returned Ok while the
\* second call was in the slot
C13_Witness ==
  /\ pc[1] = "done" /\ 1 \notin IdsOf(sessions) /\ dirs[1] # NoDir
  /\ failed = 1 /\ ret = "Ok" /\ slot = 2 /\ worker[2] \in Running

\* the session of id in list
SessionOf(list, id) == list[Position(list, id)]

\* a field of a payload that is absent, empty or blank
Blank(text) == text = NoText \/ Trim(text) = <<>>

\* C14: update_session applies a field only when it is given and not blank:
\* an absent, empty or blank title or transcript leaves the stored value as
\* it is, a title given is stored trimmed, and every other field and every
\* other session stay as they are.
C14_Step ==
  \A id \in Ids, title \in PayloadTitles, transcript \in PayloadTranscripts :
    (id \in IdsOf(sessions) /\ update_session(id, title, transcript, "none")) =>
      LET old == SessionOf(sessions, id)
          new == SessionOf(sessions', id)
      IN  /\ ret' = "Ok"
          /\ new.title = (IF Blank(title) THEN old.title ELSE Trim(title))
          /\ Blank(transcript) => new.transcript = old.transcript
          /\ sessions' = [sessions EXCEPT ![Position(sessions, id)] =
                            [old EXCEPT !.title = new.title, !.transcript = new.transcript]]

C14_PartialUpdate == [][C14_Step]_vars

\* C15: update_session of an id that is not in the list returns
\* SessionNotFound and changes nothing: list, index and directories are as
\* before; and it returns SessionNotFound for no other id.
C15_Step ==
  \A id \in Ids, title \in PayloadTitles, transcript \in PayloadTranscripts,
     fault \in UpdateFaults :
    update_session(id, title, transcript, fault) =>
      /\ ret' = "SessionNotFound" <=> id \notin IdsOf(sessions)
      /\ id \notin IdsOf(sessions) => UNCHANGED <<storeVars, jobVars, failed, given, modelVars, dspVars>>

C15_NotFound == [][C15_Step]_vars

\* an update of an unknown id was turned away from a store whose sessions
\* earlier updates have changed
C15_Witness ==
  /\ ret = "SessionNotFound" /\ Len(sessions) = 2
  /\ \E i \in 1..2 : sessions[i].transcript = <<"e">> /\ sessions[i].title = <<"t">>

\* the ids of the records of a batch
IdsIn(batch) == {batch[k].id : k \in 1..Len(batch)}

\* the last record of a batch that carries id
LastRecord(batch, id) ==
  batch[CHOOSE k \in 1..Len(batch) :
          batch[k].id = id /\ \A m \in (k + 1)..Len(batch) : batch[m].id # id]

\* C16: import_sessions_data upserts by id.  After an import that returned Ok
\* the list holds, for every id of the batch, exactly one session, with the
\* title, transcript and created_at of the last record of that id; the
\* sessions of other ids are as they were and no other session has appeared;
\* the list is ordered by created_at descending and the index is its
\* serialization.
C16_Step ==
  (ret' = "Ok" /\ given # <<>>) =>
    /\ \A id \in IdsIn(given) :
         /\ Cardinality({i \in 1..Len(sessions') : sessions'[i].id = id}) = 1
         /\ LET new == SessionOf(sessions', id)
                last == LastRecord(given, id)
            IN  /\ new.title = last.title
                /\ new.transcript = last.transcript
                /\ new.created_at = last.created_at
    /\ \A i \in 1..Len(sessions) :
         sessions[i].id \notin IdsIn(given)
           => Cardinality({j \in 1..Len(sessions') : sessions'[j] = sessions[i]}) = 1
    /\ IdsOf(sessions') = IdsOf(sessions) \cup IdsIn(given)
    /\ Len(sessions') = Cardinality(IdsOf(sessions'))
    /\ NewestFirst(sessions')
    /\ index' = Serialize(sessions')

C16_Upsert == [][C16_Step]_vars

\* a batch that carries the id of a session of the store twice, with
\* different created_at, was imported
C16_Witness ==
  /\ ret = "Ok" /\ Len(given) = 2 /\ given[1].id = 1 /\ given[2].id = 1
  /\ given[1].created_at # given[2].created_at
  /\ SessionOf(sessions, 1).title = <<"a">>

\* the store SpeechManager::new makes on an empty data directory, as
\* ImportLoop takes it
EmptyStore == [list |-> <<>>, dirs |-> [id \in Ids |-> NoDir], err |-> "none"]

\* every audio file the list names is on disk
AudioOnDisk == \A i \in 1..Len(sessions) : sessions[i].audio_path[3] \in dirs[sessions[i].id]

\* C17: round trip.  Whatever bytes the audio files hold, when
\* export_sessions_data succeeds, importing its result into an empty store
\* succeeds and leaves a list with the same ids, each with the title, the
\* transcript and the created_at it had, ordered by created_at, and the bytes
\* written for each session are those of its audio file.
C17_RoundTrip ==
  \A content \in [IdsOf(sessions) -> AudioBytes] :
    LET exported == ExportSessionsData(sessions, dirs, content)
        st == ImportLoop(EmptyStore, exported.backups, 1, "none")
        imported == SortDesc(st.list)
    IN  exported.ok =>
          /\ st.err = "none"
          /\ Len(imported) = Len(sessions)
          /\ IdsOf(imported) = IdsOf(sessions)
          /\ \A id \in IdsOf(sessions) :
               /\ SessionOf(imported, id).title = SessionOf(sessions, id).title
               /\ SessionOf(imported, id).transcript = SessionOf(sessions, id).transcript
               /\ SessionOf(imported, id).created_at = SessionOf(sessions, id).created_at
               /\ SessionOf(imported, id).audio_path[3] \in st.dirs[id]
          /\ NewestFirst(imported)
          /\ \A k \in 1..Len(exported.backups) :
               ImportedAudio(exported.backups[k]) = content[exported.backups[k].id]

\* a store of two sessions, one created and one imported, that can be
\* exported and whose list is not ordered by created_at
C17_Witness ==
  /\ Len(sessions) = 2 /\ AudioOnDisk /\ ~NewestFirst(sessions)
  /\ \E i, j \in 1..2 : sessions[i].audio_path[3] = RECORDING /\ sessions[j].audio_path[3] = <<"f">>

\* the components of a session id read as a path: the id of ClimbingIds is
\* "../../x", every other id is a plain name
IdComponents(id) == IF id \in ClimbingIds THEN <<"..", "..", "x">> ELSE <<"name">>

\* the component a sanitized file name is: it holds no separator
FileComponent(file) ==
  IF file = <<".", ".">> THEN ".." ELSE IF file = <<".">> THEN "." ELSE "name"

\* format!("sessions/{}/{}", backup.id, sanitized_filename) as the path
\* base_dir.join reads: its components, in order
Components(audio_path) ==
  <<"name">> \o IdComponents(audio_path[2]) \o <<FileComponent(audio_path[3])>>

RECURSIVE StaysInside(_, _, _)
\* walking the components from the base directory never goes above it
StaysInside(components, k, depth) ==
  IF k > Len(components) THEN TRUE
  ELSE LET d == IF components[k] = ".." THEN depth - 1
                ELSE IF components[k] = "." THEN depth ELSE depth + 1
       IN  d >= 0 /\ StaysInside(components, k + 1, d)

\* sessions/<id>/<file>: three components, none climbing, under the base
InsideBase(audio_path) ==
  LET components == Components(audio_path)
  IN  /\ Len(components) = 3
      /\ \A k \in 1..3 : components[k] = "name"
      /\ StaysInside(components, 1, 0)

\* C18: every session's audio_path resolves inside the base storage
\* directory, as sessions/<id>/<file> with no component that climbs out, and
\* its file name holds no path separator.
C18_InsideBase ==
  \A i \in 1..Len(sessions) :
    /\ InsideBase(sessions[i].audio_path)
    /\ \A k \in 1..Len(sessions[i].audio_path[3]) : sessions[i].audio_path[3][k] \notin {"/", "\\"}

\* call c returned the error r without having been admitted, and nothing of
\* the store, the disk, the slot, the flags or the workers has changed
C19_Rejected(c, r) ==
  /\ pc'[c] = "done" /\ result'[c] = r
  /\ UNCHANGED <<sessions, index, dirs, slot, flag, released, dropTasks, worker, wres>>

\* C19: a request rejected before admission touches nothing.  A request with
\* an unknown language tag returns UnsupportedLanguage, and a well-formed
\* request made while the slot is taken returns TranscriptionInProgress; in
\* both cases no directory or file is made and the list, the index, the
\* occupant of the slot and its cancellation flag are as they were.
C19_Step ==
  \A c \in Calls, tag \in LanguageInputs, data \in AudioInputs :
    transcribe_audio_begin(c, tag, data) =>
      /\ TryFromLanguage(tag) = "UnsupportedLanguage" => C19_Rejected(c, "UnsupportedLanguage")
      /\ (/\ TryFromLanguage(tag) # "UnsupportedLanguage"
          /\ DecodeAudioBase64(data).ok
          /\ slot # 0) => C19_Rejected(c, "TranscriptionInProgress")

C19_RejectionFrame == [][C19_Step]_vars

\* a request was turned away while the job in the slot, already asked to
\* cancel, was still running; nothing was made for the request
C19_Witness ==
  \E c, d \in Calls :
    /\ slot = c /\ flag[c] /\ worker[c] \in Running
    /\ pc[d] = "done" /\ result[d] = "TranscriptionInProgress" /\ dirs[d] = NoDir

\* the events of log from position from to position to are progress events
\* whose downloaded_bytes never go down
ProgressRun(log, from, to) ==
  \A i \in from..to :
    /\ log[i].kind = "Progress"
    /\ i > from => log[i - 1].bytes <= log[i].bytes

\* the events of a download: Downloading, progress events and, once the
\* download has ended, exactly one of Finished and Failed, in the last place
DownloadLog(log, ended) ==
  /\ Len(log) >= 1 /\ log[1].kind = "Downloading"
  /\ IF ended
     THEN /\ Len(log) >= 2
          /\ log[Len(log)].kind \in {"Finished", "Failed"}
          /\ ProgressRun(log, 2, Len(log) - 1)
     ELSE ProgressRun(log, 2, Len(log))

C20_State ==
  \A e \in EnsureCalls :
    /\ epc[e] = "done" =>
         \/ events[e] = <<Event("Exists", 0)>> /\ eret[e] = "ready"
         \/ bundled /\ events[e] = <<Event("Finished", 0)>> /\ eret[e] = "ready"
         \/ /\ ~bundled
            /\ DownloadLog(events[e], TRUE)
            /\ events[e][Len(events[e])].kind = "Finished" <=> eret[e] = "downloaded"
            /\ events[e][Len(events[e])].kind = "Failed" <=> eret[e] = "Err"
    /\ epc[e] \in {"request", "create", "stream", "failed"} => DownloadLog(events[e], FALSE)
    /\ epc[e] \in {"idle", "mkdir", "bundled"} => events[e] = <<>>

C20_Step ==
  \A e \in EnsureCalls :
    ensure_model_begin(e) =>
      IF modelFile # "absent"
      THEN /\ events'[e] = <<Event("Exists", 0)>> /\ epc'[e] = "done"
           /\ modelFile' = modelFile
      ELSE events'[e] = <<>>

\* C20: the events of a call of ensure_model come in the prescribed order.
\* With the model file there the call emits Exists alone and returns without
\* touching the file; otherwise, with a bundled candidate, it emits Finished
\* alone and returns ready, not downloaded; otherwise it emits Downloading,
\* then progress events whose downloaded_bytes never go down, then exactly
\* one of Finished, returning downloaded, and Failed, returning the error.
C20_EventOrder == []C20_State /\ [][C20_Step]_vars

\* the download of call e has just failed: at the request, at the creation of
\* the file, at a chunk or at the flush
DownloadFails(e) ==
  \/ \E answer \in {"send", "status"} : download_model_request(e, answer)
  \/ download_model_create(e, FALSE)
  \/ \E len \in ChunkLens, outcome \in {"stream", "write"} : download_model_chunk(e, len, outcome)
  \/ download_model_end(e, FALSE)

C21_Step ==
  \A e \in EnsureCalls :
    /\ DownloadFails(e) => epc'[e] = "failed" /\ events'[e] = events[e]
    /\ \A removed \in BOOLEAN :
         ensure_model_failed(e, removed) =>
           /\ events'[e] = Append(events[e], Event("Failed", 0))
           /\ eret'[e] = "Err" /\ epc'[e] = "done"
           /\ modelFile' = "absent"

\* C21: a download that fails at any point leads the call to its failure
\* exit without another request, and that exit emits Failed, returns the
\* error and leaves no model file at the expected path.
C21_FailedDownload == [][C21_Step]_vars

\* C22: every session of the list has a title that is not empty once
\* trimmed.
C22_TitlesNotBlank == \A i \in 1..Len(sessions) : Trim(sessions[i].title) # <<>>

\* a quotient lies in the closed range [-1, 1]
InUnitRange(q) == WideLeq(WideAbs(q.num), WideAbs(q.den))

\* C23: for an integer file of a supported depth with at least one channel
\* the decoder returns samples in [-1, 1], each the average over its frame
\* of the samples divided by 127, by 32767 or by 2^(bits-1).
C23_UnitRange ==
  (/\ dspIn.kind = "wav" /\ dspOut # NoOutput
   /\ dspIn.format = "Int" /\ dspIn.bits \in {8, 16, 24, 32} /\ dspIn.channels >= 1) =>
    /\ dspOut.status = "Ok"
    /\ \A i \in 1..Len(dspOut.samples) :
         /\ InUnitRange(dspOut.samples[i])
         /\ dspIn.bits \in {24, 32} =>
              dspOut.samples[i].den =
                WideTimes(WideTimes(Wide(2 ^ (dspIn.bits - 2)), 2), dspIn.channels)

\* the distance of two lengths
Distance(a, b) == IF a < b THEN b - a ELSE a - b

\* every run of the resampler reads inside the buffer it is given
C24_ReadsInside ==
  /\ \A target \in 0..(MaxBuffer * MaxRate * MaxRate), low \in BOOLEAN :
       /\ resample_audio(target, low) =>
            dspOut'.status = "once" /\ dspOut'.reads \subseteq 0..(Len(dspIn.data) - 1)
       /\ resample_back(target, low) =>
            dspOut'.status = "twice" /\ dspOut'.reads \subseteq 0..(Len(dspOut.samples) - 1)

\* C24 as stated: resampled and resampled back, a buffer has its length
\* again within one sample, whatever the two rates are, and every read is
\* inside the buffer.
C24_Step ==
  /\ C24_ReadsInside
  /\ dspOut'.status = "twice" => Distance(Len(dspOut'.samples), Len(dspIn.data)) <= 1

C24_WithinOneSample == [][C24_Step]_vars

\* C24 as the code has it: the length comes back within half a sample of
\* the first rate and half a sample of the second, that is
\* |L2 - L| <= (from/to + 1) / 2; from a lower to a higher rate and back it
\* comes back exactly.  Every read is inside the buffer.
C24_DurationStep ==
  /\ C24_ReadsInside
  /\ dspOut'.status = "twice" =>
       /\ 2 * dspIn.to * Distance(Len(dspOut'.samples), Len(dspIn.data)) <= dspIn.from + dspIn.to
       /\ dspIn.from <= dspIn.to => Len(dspOut'.samples) = Len(dspIn.data)

C24_WithinOnePeriod == [][C24_DurationStep]_vars

\* a buffer of seven samples went to a fifth of its rate and back, reading up
\* to its last sample, and came back two samples short
C24_Witness ==
  /\ dspIn.kind = "pcm" /\ dspOut.status = "twice"
  /\ Len(dspIn.data) = 7 /\ dspIn.from = 5 /\ dspIn.to = 1
  /\ Len(dspOut.samples) = 5

C25_State ==
  \A c \in Calls :
    worker[c] \in Running =>
      /\ LockHolder # c
      /\ ENABLED list_sessions
      /\ ENABLED cancel_transcription
      /\ \A id \in Ids :
           /\ ENABLED delete_session(id, "none")
           /\ ENABLED update_session(id, <<"t">>, <<"e">>, "none")
      /\ \A d \in Calls :
           (pc[d] = "idle" /\ \A b \in Calls : b < d => pc[b] # "idle") =>
             ENABLED transcribe_audio_begin(d, "en", <<"A", "Q", "=", "=">>)

C25_Step ==
  \A c \in Calls :
    /\ (WorkerStep(c) \/ WorkerEnd(c) \/ transcribe_blocking_more(c)
          \/ transcribe_blocking_panic(c)) => UNCHANGED <<slot, sessions, index, pc, result>>
    /\ (transcribe_audio_spawn(c) \/ transcribe_audio_join(c) \/ transcribe_audio_cleanup(c)
          \/ \E ok \in BOOLEAN :
               \/ transcribe_audio_mkdir(c, ok) \/ transcribe_audio_mkparent(c, ok)
               \/ transcribe_audio_write(c, ok) \/ transcribe_audio_transcript(c, ok)
               \/ transcribe_audio_segments(c, ok)) => UNCHANGED <<slot, sessions>>
    /\ \A d \in Calls :
         (worker[c] \in Running /\ slot # 0
           /\ transcribe_audio_begin(d, "en", <<"A", "Q", "=", "=">>)) =>
             pc'[d] = "done" /\ result'[d] = "TranscriptionInProgress"

C26_Segments ==
  \A c \in Calls :
    (pc[c] = "done" /\ result[c] = "Ok") =>
      LET kept == wres[c].segments
      IN  /\ \A i \in 1..Len(kept) : kept[i] # <<>>
          /\ wres[c].transcript = JoinLines(<<>>, kept)
          /\ \E engine \in EngineTexts :
               kept = SelectSeq(TextValues(engine), LAMBDA text : text # <<>>)

\* a call that changes the list takes a step
MutatingCall ==
  \/ \E c \in Calls, title \in TitleInputs, ok \in BOOLEAN : transcribe_audio_insert(c, title, ok)
  \/ \E id \in Ids, fault \in DeleteFaults : delete_session(id, fault)
  \/ \E id \in Ids, title \in UpdateTitles, transcript \in UpdateTranscripts,
        fault \in UpdateFaults : update_session(id, title, transcript, fault)
  \/ \E batch \in Batches, fault \in ImportFaults : import_sessions_data(batch, fault)

C27_Step ==
  (MutatingCall /\ ret' \in {"Io", "Audio", "SessionNotFound"}) => sessions' = sessions

\* C27: a mutating call that returns an error leaves the in-memory list as
\* it was before the call.
C27_ErrorKeepsList == [][C27_Step]_vars

\* the slot is empty and nothing is in progress: every call is yet to come,
\* has returned or was abandoned, no worker runs and no release is pending
Quiet ==
  /\ slot = 0 /\ dropTasks = {}
  /\ \A c \in Calls : pc[c] \in {"idle", "done", "abandoned"} /\ worker[c] \notin Running

\* C28: when the slot is empty and nothing is in progress, every directory
\* under sessions/ is that of a session of the list; a call that returned an
\* error or was abandoned has left none.
C28_NoOrphans ==
  Quiet =>
    /\ \A id \in Ids : dirs[id] # NoDir => id \in IdsOf(sessions)
    /\ \A c \in Calls :
         (pc[c] = "abandoned" \/ (pc[c] = "done" /\ result[c] # "Ok")) => dirs[c] = NoDir

\* call e has reported the model as ready: it emitted Exists or Finished
Reported(e) == \E i \in 1..Len(events[e]) : events[e][i].kind \in {"Exists", "Finished"}

\* call e has the model file open for writing
Downloading(e) == epc[e] = "stream"

C29_Step ==
  \A e \in EnsureCalls :
    /\ (eret[e] = "none" /\ eret'[e] \in {"ready", "downloaded"}) => modelFile' = "complete"
    /\ (~Reported(e) /\ Reported(e)') => modelFile' = "complete"
    /\ (ensure_model_begin(e) /\ \E f \in EnsureCalls \ {e} : Downloading(f)) => ~Reported(e)'
    /\ \A removed \in BOOLEAN :
         (ensure_model_failed(e, removed) /\ \E f \in EnsureCalls \ {e} : Reported(f))
           => modelFile' = modelFile

\* C29: under any interleaving of the calls of ensure_model, a call that
\* returns a ready status or emits Exists or Finished does so with the model
\* file complete at the expected path, no call reports Exists while another
\* call is still downloading the file, and the cleanup of a failing call does
\* not delete the file another call has reported.
C29_ReadyMeansComplete == [][C29_Step]_vars


====
